---- MODULE Spec2Model ----
(***************************************************************************)
(* The pooled, transactional database access layer of                      *)
(* backend/app/core/database.py: the lazily initialised connection pool    *)
(* (_init_pool, _get_pooled_connection, _return_connection) and the scoped *)
(* cursor get_db_cursor, run by several threads at once.                   *)
(*                                                                         *)
(* pyodbc is outside the repository.  What the model takes from it:        *)
(*   - a connection is "open" or "closed"; before the factory makes it it  *)
(*     is "unborn";                                                        *)
(*   - the session of an open connection can break at any time (killed by  *)
(*     the server, network loss, closed by its holder), so each            *)
(*     conn.execute("SELECT 1"), cursor(), commit() and rollback() on an   *)
(*     open connection either succeeds or raises: the outcome is an input; *)
(*   - conn.close() ends the session whether or not it raises;             *)
(*   - cursor.nextset() moves to the next result set and returns False     *)
(*     when there is none; when it raises, pyodbc has freed the results of *)
(*     the statement before it raises;                                     *)
(*   - the server drops the uncommitted work of a session that ends.       *)
(*                                                                         *)
(* A step of a thread that touches only its own locals and the connection  *)
(* it holds is taken together with the access to the queue next to it: the *)
(* probe with the pop in PoolGet, the drain block and the probe with the   *)
(* put in Finally.                                                         *)
(***************************************************************************)
EXTENDS Integers, Sequences, FiniteSets, TLC

\* Threads that call get_db_cursor concurrently.
NumThreads == 2
\* Capacity of the idle set.  database.py sets 5; the model scales it down so
\* that the callers can exhaust it (spec Scenario C does the same, with 2).
POOL_SIZE == 1

Threads == 1..NumThreads
\* Each thread runs one Unit of Work; one acquire calls the factory at most
\* once, _init_pool POOL_SIZE times.
MaxConns == POOL_SIZE + NumThreads
ConnIds == 1..MaxConns
\* conn = None
None == 0

VARIABLES
    poolNone,     \* _pool is None
    pool,         \* the Queue _pool: idle connections, FIFO
    pool_lock,    \* holder of _pool_lock, None when free
    initI,        \* iterations of the population loop of _init_pool done
    connState,    \* ConnIds -> "unborn" | "open" | "closed"
    uncommitted,  \* ConnIds -> statements on the connection await commit
    pending,      \* ConnIds -> the cursor get_db_cursor last opened on the
                  \*            connection has result sets not consumed
    nextId,       \* connections created so far
    pc,           \* position of each thread in get_db_cursor
    conn,         \* local conn of get_db_cursor
    cursor,       \* local cursor: "none" | "open"
    uow,          \* what happened in the thread's current Unit of Work
    tx,           \* the rows that await commit: pairs <<connection, row>>
    db,           \* the rows committed to the database
    calls         \* the service calls under way, one record per caller

vars == <<poolNone, pool, pool_lock, initI, connState, uncommitted, pending,
          nextId, pc, conn, cursor, uow, tx, db, calls>>

shared == <<poolNone, pool, pool_lock, initI>>

\* A Unit of Work in which nothing has happened yet.
NewUoW ==
    [origin   |-> "none",   \* "pooled" | "replacement" | "fallback"
     stale    |-> None,     \* the connection that failed validation at checkout
     factory  |-> "none",   \* _create_connection in acquire: "ok" | "fail"
     body     |-> "none",   \* "ok" | "exc" | "base"
     commit   |-> "none",   \* "ok" | "fail"
     rollback |-> "none",   \* "ok" | "fail"
     released |-> 0,        \* calls of _return_connection on a connection
     release  |-> "none",   \* what it did: "put" | "full" | "dead"
     probe    |-> "none",   \* its probe: "alive" | "dead"
     exc      |-> "none",   \* the exception in flight
     result   |-> "none"]   \* "ok", or the exception the caller receives

InPool(c) == \E i \in 1..Len(pool) : pool[i] = c

\* The thread is inside a Unit of Work that holds a connection.
Active(t) == conn[t] # None /\ pc[t] \in {"cursor", "body", "commit", "except", "finally"}

\* The module is loaded and no request has come in: _pool is None, the lock is
\* free, no connection exists, no row of the transactions under study is in
\* the database.
InitPool ==
    /\ poolNone = TRUE
    /\ pool = <<>>
    /\ pool_lock = None
    /\ initI = 0
    /\ connState = [c \in ConnIds |-> "unborn"]
    /\ uncommitted = [c \in ConnIds |-> FALSE]
    /\ pending = [c \in ConnIds |-> FALSE]
    /\ nextId = 0
    /\ pc = [t \in Threads |-> "idle"]
    /\ conn = [t \in Threads |-> None]
    /\ cursor = [t \in Threads |-> "none"]
    /\ uow = [t \in Threads |-> NewUoW]
    /\ tx = {}

Init ==
    /\ InitPool
    /\ db = {}
    /\ calls = <<>>

\* A caller enters `with get_db_cursor()`: conn = None, cursor = None.
Start(t) ==
    /\ pc[t] = "idle"
    /\ pc' = [pc EXCEPT ![t] = "init"]
    /\ conn' = [conn EXCEPT ![t] = None]
    /\ cursor' = [cursor EXCEPT ![t] = "none"]
    /\ uow' = [uow EXCEPT ![t] = NewUoW]
    /\ UNCHANGED <<shared, connState, uncommitted, pending, nextId>>
    /\ UNCHANGED <<tx, db, calls>>

\* _create_connection succeeded: the connection it returns.
NewConn == nextId + 1

\* Mutant of InitLock: _init_pool without `with _pool_lock:`.
InitLockFree(t) ==
    /\ pc[t] = "init"
    /\ IF poolNone
         THEN /\ poolNone' = FALSE
              /\ pool' = <<>>
              /\ pool_lock' = t
              /\ initI' = 0
              /\ pc' = [pc EXCEPT ![t] = "populate"]
         ELSE /\ pc' = [pc EXCEPT ![t] = "get"]
              /\ UNCHANGED shared
    /\ UNCHANGED <<connState, uncommitted, pending, nextId, conn, cursor, uow>>
    /\ UNCHANGED <<tx, db, calls>>

\* _init_pool, `with _pool_lock:` and `if _pool is None`.  A thread that finds
\* the pool made leaves the lock at once; the first one makes the empty Queue
\* and keeps the lock for the population loop.
InitLock(t) ==
    /\ pc[t] = "init"
    /\ pool_lock = None
    /\ IF poolNone
         THEN /\ poolNone' = FALSE
              /\ pool' = <<>>
              /\ pool_lock' = t
              /\ initI' = 0
              /\ pc' = [pc EXCEPT ![t] = "populate"]
         ELSE /\ pc' = [pc EXCEPT ![t] = "get"]
              /\ UNCHANGED shared
    /\ UNCHANGED <<connState, uncommitted, pending, nextId, conn, cursor, uow>>
    /\ UNCHANGED <<tx, db, calls>>

\* Mutant of InitCreate: the population loop without its try/except, so that
\* a connect failure leaves _init_pool (and the lock) and is raised.
InitCreateRaises(t) ==
    /\ pc[t] = "populate"
    /\ initI < POOL_SIZE
    /\ \E ok \in BOOLEAN :
         IF ok
           THEN /\ initI' = initI + 1
                /\ connState' = [connState EXCEPT ![NewConn] = "open"]
                /\ nextId' = NewConn
                /\ pool' = Append(pool, NewConn)
                /\ UNCHANGED <<pool_lock, pc, uow>>
           ELSE /\ initI' = POOL_SIZE
                /\ pool_lock' = None
                /\ uow' = [uow EXCEPT ![t].exc = "connect"]
                /\ pc' = [pc EXCEPT ![t] = "except"]
                /\ UNCHANGED <<connState, nextId, pool>>
    /\ UNCHANGED <<poolNone, uncommitted, pending, conn, cursor>>
    /\ UNCHANGED <<tx, db, calls>>

\* One iteration of `for _ in range(POOL_SIZE)`: the factory succeeds and the
\* connection is put, or it fails and the failure is logged.
InitCreate(t) ==
    /\ pc[t] = "populate"
    /\ initI < POOL_SIZE
    /\ initI' = initI + 1
    /\ \E ok \in BOOLEAN :
         IF ok
           THEN /\ connState' = [connState EXCEPT ![NewConn] = "open"]
                /\ nextId' = NewConn
                /\ pool' = Append(pool, NewConn)
           ELSE UNCHANGED <<connState, nextId, pool>>
    /\ UNCHANGED <<poolNone, pool_lock, uncommitted, pending, pc, conn, cursor, uow>>
    /\ UNCHANGED <<tx, db, calls>>

\* Mutant of InitUnlock: _pool_lock is kept for the rest of the acquire.
InitUnlockLate(t) ==
    /\ pc[t] = "populate"
    /\ initI = POOL_SIZE
    /\ pc' = [pc EXCEPT ![t] = "get"]
    /\ UNCHANGED <<shared, connState, uncommitted, pending, nextId, conn, cursor, uow>>
    /\ UNCHANGED <<tx, db, calls>>

\* The loop is over: the `with` block releases _pool_lock.
InitUnlock(t) ==
    /\ pc[t] = "populate"
    /\ initI = POOL_SIZE
    /\ pool_lock' = None
    /\ pc' = [pc EXCEPT ![t] = "get"]
    /\ UNCHANGED <<poolNone, pool, initI, connState, uncommitted, pending, nextId,
                   conn, cursor, uow>>
    /\ UNCHANGED <<tx, db, calls>>

\* Mutant of QueueGet: the connection handed out stays in the queue.
QueuePeek(q) == q

\* What Queue.get leaves in the queue.
QueueGet(q) == Tail(q)

\* Mutant of CloseConn: the close is forgotten.
CloseForgotten(cs, c) == cs

\* conn.close(): the session ends and the server drops its uncommitted work.
CloseConn(cs, c) == [cs EXCEPT ![c] = "closed"]

\* The rows written on connection c that await commit.
Rows(x, c) == {w[2] : w \in {v \in x : v[1] = c}}

\* The rows awaiting commit once the transaction of c is over: committed,
\* rolled back, or dropped by the server with the session.
EndTx(x, c) == {w \in x : w[1] # c}

\* Mutant of PoolGet: the connection that failed the probe is returned to the
\* caller all the same.
PoolGetReturnsStale(t) ==
    /\ pc[t] = "get"
    /\ pool # <<>>
    /\ \E alive \in BOOLEAN : LET c == Head(pool) IN
         /\ pool' = Tail(pool)
         /\ conn' = [conn EXCEPT ![t] = c]
         /\ uow' = [uow EXCEPT ![t].origin = "pooled",
                                ![t].stale = IF alive THEN None ELSE c]
         /\ pc' = [pc EXCEPT ![t] = "cursor"]
    /\ UNCHANGED <<poolNone, pool_lock, initI, connState, uncommitted, pending,
                   nextId, cursor>>
    /\ UNCHANGED <<tx, db, calls>>

\* Mutant of PoolGet: after a stale connection the queue is tried again.
PoolGetRetries(t) ==
    /\ pc[t] = "get"
    /\ pool # <<>>
    /\ \E alive \in BOOLEAN : LET c == Head(pool) IN
         /\ pool' = Tail(pool)
         /\ IF alive
              THEN /\ conn' = [conn EXCEPT ![t] = c]
                   /\ uow' = [uow EXCEPT ![t].origin = "pooled"]
                   /\ pc' = [pc EXCEPT ![t] = "cursor"]
                   /\ UNCHANGED <<connState, uncommitted, pending, tx>>
              ELSE /\ connState' = CloseConn(connState, c)
                   /\ uncommitted' = [uncommitted EXCEPT ![c] = FALSE]
                   /\ pending' = [pending EXCEPT ![c] = FALSE]
                   /\ tx' = EndTx(tx, c)
                   /\ uow' = [uow EXCEPT ![t].stale = c]
                   /\ UNCHANGED <<pc, conn>>
    /\ UNCHANGED <<poolNone, pool_lock, initI, nextId, cursor, db, calls>>

\* _pool.get returned a connection: validate it (`alive`: the probe does not
\* raise); a live one is returned, a stale one is closed and the factory is
\* called for a replacement.
PoolGet(t) ==
    /\ pc[t] = "get"
    /\ pool # <<>>
    /\ \E alive \in BOOLEAN : LET c == Head(pool) IN
         /\ pool' = QueueGet(pool)
         /\ IF alive
              THEN /\ conn' = [conn EXCEPT ![t] = c]
                   /\ uow' = [uow EXCEPT ![t].origin = "pooled"]
                   /\ pc' = [pc EXCEPT ![t] = "cursor"]
                   /\ UNCHANGED <<connState, uncommitted, pending, tx>>
              ELSE /\ connState' = CloseConn(connState, c)
                   /\ uncommitted' = [uncommitted EXCEPT ![c] = FALSE]
                   /\ pending' = [pending EXCEPT ![c] = FALSE]
                   /\ tx' = EndTx(tx, c)
                   /\ uow' = [uow EXCEPT ![t].origin = "replacement", ![t].stale = c]
                   /\ pc' = [pc EXCEPT ![t] = "create"]
                   /\ UNCHANGED conn
    /\ UNCHANGED <<poolNone, pool_lock, initI, nextId, cursor, db, calls>>

\* Mutant of PoolTimeout: Empty is raised to the caller instead of falling
\* back to the factory.
PoolTimeoutRaises(t) ==
    /\ pc[t] = "get"
    /\ pool = <<>>
    /\ uow' = [uow EXCEPT ![t].origin = "fallback", ![t].exc = "connect"]
    /\ pc' = [pc EXCEPT ![t] = "except"]
    /\ UNCHANGED <<shared, connState, uncommitted, pending, nextId, conn, cursor>>
    /\ UNCHANGED <<tx, db, calls>>

\* Mutant of PoolTimeout: _pool.get() without a timeout keeps waiting on the
\* empty queue.
PoolGetWaits(t) ==
    /\ pc[t] = "get"
    /\ pool = <<>>
    /\ UNCHANGED vars

\* _pool.get waited POOL_TIMEOUT on an empty queue and raised Empty.
PoolTimeout(t) ==
    /\ pc[t] = "get"
    /\ pool = <<>>
    /\ uow' = [uow EXCEPT ![t].origin = "fallback"]
    /\ pc' = [pc EXCEPT ![t] = "create"]
    /\ UNCHANGED <<shared, connState, uncommitted, pending, nextId, conn, cursor>>
    /\ UNCHANGED <<tx, db, calls>>

\* Mutant of CreateConnection: a failed connect is tried again.
CreateConnectionRetries(t) ==
    /\ pc[t] = "create"
    /\ \E ok \in BOOLEAN :
         IF ok
           THEN /\ connState' = [connState EXCEPT ![NewConn] = "open"]
                /\ nextId' = NewConn
                /\ conn' = [conn EXCEPT ![t] = NewConn]
                /\ pc' = [pc EXCEPT ![t] = "cursor"]
                /\ uow' = [uow EXCEPT ![t].factory = "ok"]
           ELSE /\ uow' = [uow EXCEPT ![t].factory = "fail"]
                /\ UNCHANGED <<pc, connState, nextId, conn>>
    /\ UNCHANGED <<shared, uncommitted, pending, cursor>>
    /\ UNCHANGED <<tx, db, calls>>

\* Mutant of CreateConnection: the new connection is put into the queue, as
\* the population loop does, and returned as well.
CreateConnectionPooled(t) ==
    /\ pc[t] = "create"
    /\ \E ok \in BOOLEAN :
         IF ok
           THEN /\ connState' = [connState EXCEPT ![NewConn] = "open"]
                /\ nextId' = NewConn
                /\ pool' = Append(pool, NewConn)
                /\ conn' = [conn EXCEPT ![t] = NewConn]
                /\ pc' = [pc EXCEPT ![t] = "cursor"]
                /\ uow' = [uow EXCEPT ![t].factory = "ok"]
           ELSE /\ uow' = [uow EXCEPT ![t].exc = "connect", ![t].factory = "fail"]
                /\ pc' = [pc EXCEPT ![t] = "except"]
                /\ UNCHANGED <<connState, nextId, conn, pool>>
    /\ UNCHANGED <<poolNone, pool_lock, initI, uncommitted, pending, cursor>>
    /\ UNCHANGED <<tx, db, calls>>

\* `return _create_connection()` of _get_pooled_connection: the new connection
\* becomes conn, or the connect failure is raised into get_db_cursor's handler
\* with conn still None.
CreateConnection(t) ==
    /\ pc[t] = "create"
    /\ \E ok \in BOOLEAN :
         IF ok
           THEN /\ connState' = [connState EXCEPT ![NewConn] = "open"]
                /\ nextId' = NewConn
                /\ conn' = [conn EXCEPT ![t] = NewConn]
                /\ pc' = [pc EXCEPT ![t] = "cursor"]
                /\ uow' = [uow EXCEPT ![t].factory = "ok"]
           ELSE /\ uow' = [uow EXCEPT ![t].exc = "connect", ![t].factory = "fail"]
                /\ pc' = [pc EXCEPT ![t] = "except"]
                /\ UNCHANGED <<connState, nextId, conn>>
    /\ UNCHANGED <<shared, uncommitted, pending, cursor>>
    /\ UNCHANGED <<tx, db, calls>>

\* cursor = conn.cursor(): a new cursor, with no result set yet; a failure is
\* an Exception raised inside the try.
OpenCursor(t) ==
    /\ pc[t] = "cursor"
    /\ \E ok \in BOOLEAN :
         IF ok
           THEN /\ cursor' = [cursor EXCEPT ![t] = "open"]
                /\ pending' = [pending EXCEPT ![conn[t]] = FALSE]
                /\ pc' = [pc EXCEPT ![t] = "body"]
                /\ UNCHANGED uow
           ELSE /\ uow' = [uow EXCEPT ![t].exc = "cursor"]
                /\ pc' = [pc EXCEPT ![t] = "except"]
                /\ UNCHANGED <<cursor, pending>>
    /\ UNCHANGED <<shared, connState, uncommitted, nextId, conn>>
    /\ UNCHANGED <<tx, db, calls>>

\* The ways the body of the `with` block ends: it returns (falls off the end
\* or returns early), raises an Exception, or is interrupted by a
\* BaseException that is no Exception (KeyboardInterrupt, SystemExit,
\* GeneratorExit).
BodyOutcomes == {"ok", "exc", "base"}

\* Mutant of AfterBody: a normal return skips conn.commit().
AfterBodySkipCommit(out) ==
    CASE out = "ok"   -> "finally"
      [] out = "exc"  -> "except"
      [] out = "base" -> "finally"

\* Mutant of AfterBody: commit runs although the body raised.
AfterBodyCommitOnExc(out) ==
    CASE out = "ok"   -> "commit"
      [] out = "exc"  -> "commit"
      [] out = "base" -> "finally"

\* Where get_db_cursor goes on after `yield cursor`: on to conn.commit(), into
\* `except Exception`, or past it straight to `finally`.
AfterBody(out) ==
    CASE out = "ok"   -> "commit"
      [] out = "exc"  -> "except"
      [] out = "base" -> "finally"

\* The exception thrown into the generator at the yield.
BodyExc(out) ==
    CASE out = "ok"   -> "none"
      [] out = "exc"  -> "stmt"
      [] out = "base" -> "base"

\* `yield cursor`: the caller's body runs its statements on the borrowed
\* connection, in the transaction that autocommit=False leaves open: they
\* await commit or rollback.  The body need not consume what its statements
\* return (a stored procedure returns several result sets): result sets stay
\* pending on the cursor.
Body(t) ==
    /\ pc[t] = "body"
    /\ \E out \in BodyOutcomes :
         /\ uncommitted' = [uncommitted EXCEPT ![conn[t]] = TRUE]
         /\ pending' = [pending EXCEPT ![conn[t]] = TRUE]
         /\ uow' = [uow EXCEPT ![t].body = out, ![t].exc = BodyExc(out)]
         /\ pc' = [pc EXCEPT ![t] = AfterBody(out)]
    /\ UNCHANGED <<shared, connState, nextId, conn, cursor>>
    /\ UNCHANGED <<tx, db, calls>>

\* Mutant of AfterCommit: a failure of commit is swallowed.
AfterCommitSwallowed(ok) == "none"

\* The exception in flight after conn.commit().
AfterCommit(ok) == IF ok THEN "none" ELSE "commit"

\* conn.commit() after the body returned.
Commit(t) ==
    /\ pc[t] = "commit"
    /\ \E ok \in BOOLEAN :
         /\ uncommitted' = IF ok THEN [uncommitted EXCEPT ![conn[t]] = FALSE]
                                 ELSE uncommitted
         /\ db' = IF ok THEN db \cup Rows(tx, conn[t]) ELSE db
         /\ tx' = IF ok THEN EndTx(tx, conn[t]) ELSE tx
         /\ uow' = [uow EXCEPT ![t].commit = IF ok THEN "ok" ELSE "fail",
                                ![t].exc = AfterCommit(ok)]
         /\ pc' = [pc EXCEPT ![t] = IF ok THEN "finally" ELSE "except"]
    /\ UNCHANGED <<shared, connState, pending, nextId, conn, cursor, calls>>

\* The exception `raise e` raises after the rollback attempt: e itself, the
\* failure of rollback having been swallowed.
AfterRollback(e, ok) == e

\* `except Exception as e`: rollback if there is a connection, then raise e.
Except(t) ==
    /\ pc[t] = "except"
    /\ IF conn[t] # None
         THEN \E ok \in BOOLEAN :
                /\ uncommitted' = IF ok THEN [uncommitted EXCEPT ![conn[t]] = FALSE]
                                        ELSE uncommitted
                /\ tx' = IF ok THEN EndTx(tx, conn[t]) ELSE tx
                /\ uow' = [uow EXCEPT ![t].rollback = IF ok THEN "ok" ELSE "fail",
                                       ![t].exc = AfterRollback(uow[t].exc, ok)]
         ELSE UNCHANGED <<uncommitted, tx, uow>>
    /\ pc' = [pc EXCEPT ![t] = "finally"]
    /\ UNCHANGED <<shared, connState, pending, nextId, conn, cursor, db, calls>>

\* Mutant of QueueFull: the queue has no maxsize.
QueueNeverFull(q) == FALSE

\* Queue.put_nowait raises Full.
QueueFull(q) == Len(q) >= POOL_SIZE

\* What the caller of get_db_cursor receives: the exception in flight, or a
\* normal return.
Outcome(e) == IF e = "none" THEN "ok" ELSE e

\* What is left of a Unit of Work when get_db_cursor has ended with e in
\* flight: the locals are gone; the caller has the result (body and commit are
\* kept beside it), and the record keeps what _return_connection did.
Summary(u, e, released, release, probe) ==
    [NewUoW EXCEPT !.result = Outcome(e), !.body = u.body, !.commit = u.commit,
                   !.released = released, !.release = release, !.probe = probe]

\* Mutant of ReleaseReached: an exception of the drain block leaves `finally`
\* before _return_connection.
ReleaseSkippedOnDrainError(drain) == drain # "fail"

\* `finally` reaches _return_connection whatever the drain block did: its
\* bare `except: pass` swallows what nextset or cursor.close raise.
ReleaseReached(drain) == TRUE

\* The outcomes of the drain block, lines 129-136: without a cursor it is
\* skipped; with one, the result sets are drained and the cursor closed ("ok"),
\* or nextset or close raises ("fail").
DrainOutcomes(cur) == IF cur = "none" THEN {"none"} ELSE {"ok", "fail"}

\* Mutant of PendingAfterDrain: `finally` without the nextset loop.
PendingKept(drain, p) == p

\* Result sets pending after the drain block, p being pending before it.
\* Without a cursor nothing is done.  `while cursor.nextset(): pass` consumes
\* every result set; a nextset that raises has discarded them; and
\* cursor.close() raises only after the loop.
PendingAfterDrain(drain, p) == IF drain = "none" THEN p ELSE FALSE

\* Mutant of DrainExc: the drain block without its try/except.
DrainExcRaised(drain) == IF drain = "fail" THEN "drain" ELSE "none"

\* The exception that leaves the drain block: none, `except: pass`.
DrainExc(drain) == "none"

\* The cursor after the drain block.  cursor.close() comes after the nextset
\* loop inside the same try: when nextset raises, close is skipped and the
\* cursor stays open.  Without a cursor there is none to leave open.
CursorAfterDrain(drain) == IF drain = "fail" THEN "open" ELSE "closed"

\* Mutant of ReleaseKind: _return_connection without the probe.
ReleaseKindNoProbe(alive, q) == IF QueueFull(q) THEN "full" ELSE "put"

\* Mutant of ReleaseKind: a live connection is closed although the queue has
\* room.
ReleaseKindClosesLive(alive, q) == IF ~alive THEN "dead" ELSE "full"

\* What _return_connection does with a connection: it passes the probe
\* (`alive`) and is put into the queue ("put") or, the queue being full, is
\* closed ("full"); or it fails the probe and is closed ("dead").
ReleaseKind(alive, q) ==
    IF ~alive THEN "dead" ELSE IF QueueFull(q) THEN "full" ELSE "put"

\* The outcome of conn.execute("SELECT 1") in _return_connection.
Probe(alive) == IF alive THEN "alive" ELSE "dead"

\* Mutant of ReturnConnectionExc: _return_connection without the outer
\* try/except, so that the failure of the probe gets out.
ReturnConnectionExcOfProbe(kind) == IF kind = "dead" THEN "release" ELSE "none"

\* The exception that leaves _return_connection: none.  The probe's failure
\* and a failure of the close at line 94 are caught by the outer `except:`,
\* Full by the inner one, and a failure of the close at line 98 by
\* `except: pass`.
ReturnConnectionExc(kind) == "none"

\* The exception in flight when the `finally` block is over: e, the one that
\* was in flight when it began, unless the block raised one of its own (d from
\* the drain block, r from _return_connection), which would replace it.
FinallyExc(e, d, r) == IF r # "none" THEN r ELSE IF d # "none" THEN d ELSE e

\* The `finally` block and the end of get_db_cursor when the drain block ends
\* as `drain` says and the probe of _return_connection as `alive` says: the
\* drain block, then `_return_connection(conn)`, which does nothing for None;
\* then the caller gets the result.
FinallyWith(t, drain, alive) ==
    /\ pc[t] = "finally"
    /\ LET c == conn[t] IN
         IF c = None \/ ~ReleaseReached(drain)
           THEN /\ uow' = [uow EXCEPT ![t] =
                             Summary(uow[t],
                                     FinallyExc(uow[t].exc, DrainExc(drain), "none"),
                                     0, "none", "none")]
                /\ UNCHANGED <<pool, connState, uncommitted, pending, tx>>
           ELSE LET kind == ReleaseKind(alive, pool) IN
                  /\ IF kind = "put"
                       THEN /\ pool' = Append(pool, c)
                            /\ pending' = [pending EXCEPT ![c] =
                                               PendingAfterDrain(drain, pending[c])]
                            /\ UNCHANGED <<connState, uncommitted, tx>>
                       ELSE /\ connState' = CloseConn(connState, c)
                            /\ uncommitted' = [uncommitted EXCEPT ![c] = FALSE]
                            /\ pending' = [pending EXCEPT ![c] = FALSE]
                            /\ tx' = EndTx(tx, c)
                            /\ UNCHANGED pool
                  /\ uow' = [uow EXCEPT ![t] =
                                Summary(uow[t],
                                        FinallyExc(uow[t].exc, DrainExc(drain),
                                                   ReturnConnectionExc(kind)),
                                        uow[t].released + 1, kind, Probe(alive))]
    /\ pc' = [pc EXCEPT ![t] = "done"]
    /\ conn' = [conn EXCEPT ![t] = None]
    /\ cursor' = [cursor EXCEPT ![t] = "none"]
    /\ UNCHANGED <<poolNone, pool_lock, initI, nextId, db, calls>>

\* The `finally` block, whatever the drain block and the probe run into.
Finally(t) ==
    \E drain \in DrainOutcomes(cursor[t]), alive \in BOOLEAN :
        FinallyWith(t, drain, alive)

\* One step of thread t in get_db_cursor.
ThreadNext(t) ==
    \/ Start(t)
    \/ InitLock(t)
    \/ InitCreate(t)
    \/ InitUnlock(t)
    \/ PoolGet(t)
    \/ PoolTimeout(t)
    \/ CreateConnection(t)
    \/ OpenCursor(t)
    \/ Body(t)
    \/ Commit(t)
    \/ Except(t)
    \/ Finally(t)

Next == \E t \in Threads : ThreadNext(t)

Spec == Init /\ [][Next]_vars

\* Every call the threads make returns (the factory, the probe, commit,
\* rollback and close terminate, Queue.get returns or times out after
\* POOL_TIMEOUT) and the scheduler runs every thread that can run: a thread
\* whose next step stays possible takes it.
FairSpec == Spec /\ \A t \in Threads : WF_vars(ThreadNext(t))

(***************************************************************************)
(* OrderService.create_order_from_cart (services/order_service.py), run by *)
(* one caller while the other callers run Units of Work of their own.      *)
(***************************************************************************)

\* The thread that calls create_order_from_cart.
OrderCaller == 1

\* The statements of its body, in order: the SELECT of the cart rows, the
\* INSERT of the order, the loop of INSERTs of the order items, the UPDATE
\* that links the payment, the DELETE of the cart rows.
OrderStmts == <<"select", "order", "items", "payment", "cart">>

\* The rows create_order_from_cart writes.
OrderRows == {"order", "items", "payment", "cart"}

\* The rows of a call r that runs to its end: none with an empty cart, and no
\* payment link without a payment_intent_id.
OrderRowsOf(r) ==
    IF r.cart = "empty" THEN {}
    ELSE IF r.payment THEN OrderRows ELSE OrderRows \ {"payment"}

\* The statement that follows statement k, 0 when k is the last one:
\* `if not cart_items: return None` ends the body after the SELECT, and
\* `if payment_intent_id:` skips the UPDATE.
NextStmt(r, k) ==
    IF k = 1 /\ r.cart = "empty" THEN 0
    ELSE IF k = 3 /\ ~r.payment THEN 5
    ELSE IF k = Len(OrderStmts) THEN 0
    ELSE k + 1

\* create_order_from_cart is called with a cart that is empty or not, with or
\* without a payment_intent_id; `at` is the statement it is to execute next.
InitOrder ==
    /\ InitPool
    /\ db = {}
    /\ \E cart \in {"empty", "items"}, payment \in BOOLEAN :
         calls = [t \in {OrderCaller} |-> [at |-> 1, cart |-> cart, payment |-> payment]]

\* The body of create_order_from_cart executes its next statement on the
\* borrowed connection.  The statement succeeds, and either another one
\* follows or the body returns; or it fails and raises into get_db_cursor; or
\* the thread is interrupted.  A row written awaits commit.
OrderStmt(t) ==
    /\ pc[t] = "body"
    /\ LET c == conn[t]
           k == calls[t].at
           n == NextStmt(calls[t], k)
       IN \E out \in BodyOutcomes :
            /\ uncommitted' = [uncommitted EXCEPT ![c] = TRUE]
            /\ pending' = [pending EXCEPT ![c] = TRUE]
            /\ tx' = IF out = "ok" /\ OrderStmts[k] \in OrderRows
                       THEN tx \cup {<<c, OrderStmts[k]>>}
                       ELSE tx
            /\ IF out = "ok" /\ n # 0
                 THEN /\ calls' = [calls EXCEPT ![t].at = n]
                      /\ UNCHANGED <<pc, uow>>
                 ELSE /\ uow' = [uow EXCEPT ![t].body = out, ![t].exc = BodyExc(out)]
                      /\ pc' = [pc EXCEPT ![t] = AfterBody(out)]
                      /\ UNCHANGED calls
    /\ UNCHANGED <<shared, connState, nextId, conn, cursor, db>>

\* One step of the thread that runs create_order_from_cart: get_db_cursor
\* around the statements of its body.
OrderCallerNext(t) ==
    \/ Start(t)
    \/ InitLock(t)
    \/ InitCreate(t)
    \/ InitUnlock(t)
    \/ PoolGet(t)
    \/ PoolTimeout(t)
    \/ CreateConnection(t)
    \/ OpenCursor(t)
    \/ OrderStmt(t)
    \/ Commit(t)
    \/ Except(t)
    \/ Finally(t)

OrderNext ==
    \/ OrderCallerNext(OrderCaller)
    \/ \E t \in Threads \ {OrderCaller} : ThreadNext(t)

OrderSpec == InitOrder /\ [][OrderNext]_vars

(***************************************************************************)
(* create_subscription, update_subscription (subscription_service.py) and  *)
(* update_client (client_service.py): the body of the writing              *)
(* get_db_cursor scope ends with `return get_..._by_id(id)`, which opens a  *)
(* second get_db_cursor scope on the same thread.  The two scopes of a     *)
(* call are the positions t (odd, the writing scope) and t + 1 (the scope  *)
(* of the read-back) of Threads; a last odd position without a partner is  *)
(* a caller with a plain Unit of Work.                                     *)
(*                                                                         *)
(* The database is SQL Server at READ COMMITTED.  Whether a SELECT waits   *)
(* for a row another session has written and not committed, or reads the   *)
(* last committed version of it (READ_COMMITTED_SNAPSHOT), is a setting of *)
(* the database, outside the repository: both happen.  The connections are *)
(* opened with no query timeout and the sessions with no lock timeout.     *)
(***************************************************************************)

\* The scopes that write and then call the read-back, and the scopes of the
\* read-back.
OuterScopes == {t \in Threads : t % 2 = 1 /\ t + 1 \in Threads}
InnerScopes == {t \in Threads : t % 2 = 0}
OuterOf(t) == t - 1
InnerOf(t) == t + 1

\* `with get_db_cursor() as cursor:` is entered: by a caller, or, for the
\* read-back, by the body of the writing scope when it has come to
\* `return get_..._by_id(id)`.
NestedStart(t) ==
    /\ t \in InnerScopes => pc[OuterOf(t)] = "call"
    /\ Start(t)

\* The body of a writing scope up to the read-back: its INSERT and UPDATE
\* statements run on the borrowed connection and await commit.  They all
\* succeed and the body calls get_..._by_id; or one fails and raises into
\* get_db_cursor; or the thread is interrupted.
OuterStmts(t) ==
    /\ t \in OuterScopes
    /\ pc[t] = "body"
    /\ \E out \in BodyOutcomes :
         /\ uncommitted' = [uncommitted EXCEPT ![conn[t]] = TRUE]
         /\ pending' = [pending EXCEPT ![conn[t]] = TRUE]
         /\ IF out = "ok"
              THEN /\ pc' = [pc EXCEPT ![t] = "call"]
                   /\ UNCHANGED uow
              ELSE /\ uow' = [uow EXCEPT ![t].body = out, ![t].exc = BodyExc(out)]
                   /\ pc' = [pc EXCEPT ![t] = AfterBody(out)]
    /\ UNCHANGED <<shared, connState, nextId, conn, cursor, tx, db, calls>>

\* How the body of the writing scope ends when get_..._by_id has returned or
\* raised r: it returns what the read-back returned, or the read-back's
\* exception passes through it (get_..._by_id re-raises what its scope
\* raised).
ResumeOutcome(r) ==
    CASE r = "ok"   -> "ok"
      [] r = "base" -> "base"
      [] OTHER      -> "exc"

\* The scope of the read-back has ended: the body of the writing scope ends
\* with it.
OuterResume(t) ==
    /\ t \in OuterScopes
    /\ pc[t] = "call"
    /\ pc[InnerOf(t)] = "done"
    /\ LET out == ResumeOutcome(uow[InnerOf(t)].result) IN
         /\ uow' = [uow EXCEPT ![t].body = out, ![t].exc = BodyExc(out)]
         /\ pc' = [pc EXCEPT ![t] = AfterBody(out)]
    /\ UNCHANGED <<shared, connState, uncommitted, pending, nextId, conn, cursor,
                   tx, db, calls>>

\* The body of a scope that opens no scope of its own: the read-back's SELECT
\* (it reads what is committed), or the statements of a plain Unit of Work.
PlainBody(t) ==
    /\ t \notin OuterScopes
    /\ Body(t)

\* The read-back's SELECT asks for the row the writing scope has written on
\* its own connection and not committed, and waits for that transaction to
\* end.
ReadBackBlocks(t) ==
    /\ t \in InnerScopes
    /\ pc[t] = "body"
    /\ conn[OuterOf(t)] # None /\ uncommitted[conn[OuterOf(t)]]
    /\ pc' = [pc EXCEPT ![t] = "blocked"]
    /\ UNCHANGED <<shared, connState, uncommitted, pending, nextId, conn, cursor,
                   uow, tx, db, calls>>

\* One step of scope t.
NestedNext(t) ==
    \/ NestedStart(t)
    \/ InitLock(t)
    \/ InitCreate(t)
    \/ InitUnlock(t)
    \/ PoolGet(t)
    \/ PoolTimeout(t)
    \/ CreateConnection(t)
    \/ OpenCursor(t)
    \/ OuterStmts(t)
    \/ OuterResume(t)
    \/ PlainBody(t)
    \/ ReadBackBlocks(t)
    \/ Commit(t)
    \/ Except(t)
    \/ Finally(t)

NestedSpec == Init /\ [][\E t \in Threads : NestedNext(t)]_vars

\* Every call returns unless it waits for a lock, and the scheduler runs every
\* thread that can run.
NestedFairSpec == NestedSpec /\ \A t \in Threads : WF_vars(NestedNext(t))

(***************************************************************************)
(* AuthService.reset_password (auth_service.py): three Units of Work, one  *)
(* after the other, each in a get_db_cursor scope of its own inside a       *)
(* helper that turns every exception into its return value.  Here a Unit   *)
(* of Work is one step: it commits what it wrote, or fails and writes      *)
(* nothing.  A row of the database is <<table, key, value>>.               *)
(***************************************************************************)

\* The token a call presents: the one issued for the user, or one that
\* Security.verify_token rejects.
ResetTokens == {"issued", "forged"}

\* The row of PasswordResetTokens of the issued token with is_used = u, and the
\* row of Users of its user with the password hash of caller h (0: the
\* password before any reset).
TokenRow(u) == <<"PasswordResetTokens", 1, u>>
UserRow(h) == <<"Users", 1, h>>

\* cursor.rowcount of an UPDATE of the row of a table, and the rows after
\* UPDATE ... SET column = v.
RowCount(rows, table) == Cardinality({r \in rows : r[1] = table})
UpdateRow(rows, table, v) ==
    IF RowCount(rows, table) = 0
      THEN rows
      ELSE {r \in rows : r[1] # table} \cup {<<table, 1, v>>}

\* A caller that has not called yet.
NoCall == [at |-> "idle", token |-> "none", late |-> FALSE, updated |-> FALSE,
           result |-> "none"]

\* forgot_password has sent the token: its row is stored, not used and not
\* expired, unless store_password_reset_token failed; the account is there
\* unless it has been deleted since.
InitReset ==
    /\ InitPool
    /\ \E stored \in SUBSET {TokenRow(0), UserRow(0)} : db = stored
    /\ calls = [t \in Threads |-> NoCall]

\* reset_password(token, new_password) is called: Security.verify_token
\* accepts the token, or the call returns "Invalid or expired reset token".
ResetCall(t) ==
    /\ calls[t].at = "idle"
    /\ \E token \in ResetTokens :
         calls' = [calls EXCEPT ![t] =
                     [at      |-> IF token = "issued" THEN "lookup" ELSE "done",
                      token   |-> token,
                      late    |-> TokenRow(1) \in db,
                      updated |-> FALSE,
                      result  |-> IF token = "issued" THEN "none" ELSE "invalid"]]
    /\ UNCHANGED <<shared, connState, uncommitted, pending, nextId, pc, conn,
                   cursor, uow, tx, db>>

\* get_password_reset_token: the row is read; None when there is no row, when
\* it is marked used, and when the Unit of Work raised.
LookupToken(t) ==
    /\ calls[t].at = "lookup"
    /\ \E out \in {"ok", "fail"} :
         LET found == out = "ok" /\ TokenRow(0) \in db IN
           calls' = [calls EXCEPT ![t].at = IF found THEN "update" ELSE "done",
                                  ![t].result = IF found THEN "none" ELSE "notfound"]
    /\ UNCHANGED <<shared, connState, uncommitted, pending, nextId, pc, conn,
                   cursor, uow, tx, db>>

\* update_user_password: the UPDATE of Users commits and the helper returns
\* rowcount > 0; or the Unit of Work raises and the helper returns False.  On
\* False reset_password returns "Failed to update password".
UpdatePassword(t) ==
    /\ calls[t].at = "update"
    /\ \E out \in {"ok", "fail"} :
         IF out = "ok" /\ RowCount(db, "Users") > 0
           THEN /\ db' = UpdateRow(db, "Users", t)
                /\ calls' = [calls EXCEPT ![t].at = "mark", ![t].updated = TRUE]
           ELSE /\ calls' = [calls EXCEPT ![t].at = "done", ![t].result = "failed"]
                /\ UNCHANGED db
    /\ UNCHANGED <<shared, connState, uncommitted, pending, nextId, pc, conn,
                   cursor, uow, tx>>

\* mark_password_reset_token_used: the UPDATE of PasswordResetTokens commits,
\* or the Unit of Work raises and the helper returns False; reset_password
\* does not look at what it returns and reports success.
MarkTokenUsed(t) ==
    /\ calls[t].at = "mark"
    /\ \E out \in {"ok", "fail"} :
         db' = IF out = "ok" THEN UpdateRow(db, "PasswordResetTokens", 1) ELSE db
    /\ calls' = [calls EXCEPT ![t].at = "done", ![t].result = "success"]
    /\ UNCHANGED <<shared, connState, uncommitted, pending, nextId, pc, conn,
                   cursor, uow, tx>>

ResetNext(t) ==
    \/ ResetCall(t)
    \/ LookupToken(t)
    \/ UpdatePassword(t)
    \/ MarkTokenUsed(t)

ResetSpec == InitReset /\ [][\E t \in Threads : ResetNext(t)]_vars

(***************************************************************************)
(* Concurrent calls of SubscriptionService.create_subscription             *)
(* (subscription_service.py).  Each caller's writing scope is a            *)
(* transaction of its own session; a statement is one step, and the        *)
(* transaction commits, or rolls back, when the scope ends.  The           *)
(* repository declares no unique constraint on SubscriptionNumber.         *)
(***************************************************************************)

\* The row of sys.databases of the database with
\* is_read_committed_snapshot_on = on.
SettingRow(on) == <<"sys.databases", 1, on>>

\* A SELECT reads the last committed version of a row that another session
\* has written and not committed (otherwise it waits for that session).
Versioning == SettingRow(1) \in db

\* The rows of Subscriptions, <<"Subscriptions", Id, SubscriptionNumber>>,
\* among rows.
Subscriptions(rows) == {r \in rows : r[1] = "Subscriptions"}

\* The next value of the IDENTITY column Id.
NextIdentity == Cardinality(Subscriptions(db \cup {w[2] : w \in tx})) + 1

\* Another session has written a row of Subscriptions and not committed it.
OthersWrite(t) == \E w \in tx : w[1] # t

\* A caller that has not called yet.
NoCreate == [at |-> "idle", count |-> 0, id |-> 0, result |-> "none"]

InitSubscriptions ==
    /\ InitPool
    /\ \E on \in {0, 1} : db = {SettingRow(on)}
    /\ calls = [t \in Threads |-> NoCreate]

\* create_subscription(data) is called and enters its get_db_cursor scope.
CreateCall(t) ==
    /\ calls[t].at = "idle"
    /\ calls' = [calls EXCEPT ![t].at = "count"]
    /\ UNCHANGED <<shared, connState, uncommitted, pending, nextId, pc, conn,
                   cursor, uow, tx, db>>

\* SELECT COUNT(*) FROM Subscriptions: the rows committed are counted.  The
\* statement waits while it meets a row not committed, unless rows are
\* versioned.
CountRows(t) ==
    /\ calls[t].at = "count"
    /\ Versioning \/ ~OthersWrite(t)
    /\ calls' = [calls EXCEPT ![t].at = "insert",
                              ![t].count = Cardinality(Subscriptions(db))]
    /\ UNCHANGED <<shared, connState, uncommitted, pending, nextId, pc, conn,
                   cursor, uow, tx, db>>

\* INSERT INTO Subscriptions with SubscriptionNumber "SO" + (count + 1), and
\* SELECT @@IDENTITY; or the statement fails, the scope rolls back and the
\* call raises.
InsertSubscription(t) ==
    /\ calls[t].at = "insert"
    /\ \E out \in {"ok", "fail"} :
         IF out = "ok"
           THEN /\ tx' = tx \cup {<<t, <<"Subscriptions", NextIdentity, calls[t].count + 1>>>>}
                /\ calls' = [calls EXCEPT ![t].at = "readback", ![t].id = NextIdentity]
           ELSE /\ tx' = EndTx(tx, t)
                /\ calls' = [calls EXCEPT ![t].at = "done", ![t].result = "raised"]
    /\ UNCHANGED <<shared, connState, uncommitted, pending, nextId, pc, conn,
                   cursor, uow, db>>

\* `return SubscriptionService.get_subscription_by_id(subscription_id)` inside
\* the scope: a SELECT of the new row in another session.  With versioning it
\* finds no committed row and returns None, or it raises, the writing scope
\* rolls back and the call raises; otherwise it waits for the caller's own
\* transaction.
ReadBack(t) ==
    /\ calls[t].at = "readback"
    /\ Versioning
    /\ \E out \in {"ok", "fail"} :
         IF out = "ok"
           THEN /\ calls' = [calls EXCEPT ![t].at = "commit", ![t].result = "None"]
                /\ UNCHANGED tx
           ELSE /\ calls' = [calls EXCEPT ![t].at = "done", ![t].result = "raised"]
                /\ tx' = EndTx(tx, t)
    /\ UNCHANGED <<shared, connState, uncommitted, pending, nextId, pc, conn,
                   cursor, uow, db>>

\* The scope ends: conn.commit() stores the caller's rows; or it fails, the
\* scope rolls back and the call raises.
CommitSubscription(t) ==
    /\ calls[t].at = "commit"
    /\ \E out \in {"ok", "fail"} :
         /\ db' = IF out = "ok" THEN db \cup Rows(tx, t) ELSE db
         /\ calls' = [calls EXCEPT ![t].at = "done",
                                   ![t].result = IF out = "ok" THEN calls[t].result
                                                 ELSE "raised"]
    /\ tx' = EndTx(tx, t)
    /\ UNCHANGED <<shared, connState, uncommitted, pending, nextId, pc, conn,
                   cursor, uow>>

CreateNext(t) ==
    \/ CreateCall(t)
    \/ CountRows(t)
    \/ InsertSubscription(t)
    \/ ReadBack(t)
    \/ CommitSubscription(t)

CreateSpec == InitSubscriptions /\ [][\E t \in Threads : CreateNext(t)]_vars

TypeOK ==
    /\ poolNone \in BOOLEAN
    /\ pool \in Seq(ConnIds)
    /\ pool_lock \in Threads \cup {None}
    /\ initI \in 0..POOL_SIZE
    /\ connState \in [ConnIds -> {"unborn", "open", "closed"}]
    /\ uncommitted \in [ConnIds -> BOOLEAN]
    /\ pending \in [ConnIds -> BOOLEAN]
    /\ nextId \in 0..MaxConns
    /\ \A t \in Threads : conn[t] \in ConnIds \cup {None}
    /\ \A w \in tx : w[1] \in ConnIds /\ uncommitted[w[1]]

(***************************************************************************)
(* Properties                                                              *)
(***************************************************************************)

\* The try block of t is over on a borrowed connection: body, commit and
\* rollback have had their turn, only the `finally` block is left.
AtFinally(t) == pc[t] = "finally" /\ conn[t] # None

\* get_db_cursor has ended, and had borrowed a connection.
Ended(t) == pc[t] = "done" /\ uow[t].result # "connect"

CommitInvoked(t) == uow[t].commit # "none"
RollbackInvoked(t) == uow[t].rollback # "none"

\* C1 (P1, mutual exclusion): no connection is the active connection of two
\* Units of Work at the same time.
C1_MutualExclusion ==
    \A t1, t2 \in Threads :
        (t1 # t2 /\ Active(t1) /\ Active(t2)) => conn[t1] # conn[t2]

\* Two Units of Work are active at once, one on a pooled connection and one
\* on a fallback connection.
C1_Witness ==
    \E t1, t2 \in Threads :
        /\ t1 # t2 /\ Active(t1) /\ Active(t2)
        /\ uow[t1].origin = "pooled" /\ uow[t2].origin = "fallback"

C3_LeakFreedom ==
    \A c \in ConnIds :
        connState[c] = "open" =>
            \/ InPool(c)
            \/ \E t \in Threads : Active(t) /\ conn[t] = c

\* get_db_cursor raised the commit failure and its connection, which failed
\* the probe at release, is closed: nothing is open outside the idle set.
C3_Witness ==
    \E t \in Threads :
        /\ Ended(t) /\ uow[t].result = "commit" /\ uow[t].release = "dead"
        /\ \E c \in ConnIds : connState[c] = "closed"
        /\ \A c \in ConnIds : connState[c] = "open" => InPool(c)

\* The `finally` block of a Unit of Work with a connection, run while the idle
\* set holds POOL_SIZE connections, leaves the idle set as it is and closes the
\* connection.
ReleaseAtCapacityCloses ==
    \A t \in Threads :
        (pc[t] = "finally" /\ pc'[t] = "done" /\ conn[t] # None /\ Len(pool) = POOL_SIZE)
            => (pool' = pool /\ connState'[conn[t]] = "closed")

\* C4 (P2, bounded idle set): the idle set never holds more than POOL_SIZE
\* connections, and a release at capacity closes the connection instead of
\* adding it.
C4_BoundedIdleSet ==
    [](Len(pool) <= POOL_SIZE) /\ [][ReleaseAtCapacityCloses]_vars

\* A live connection was released at capacity and the idle set is still full.
C4_Witness ==
    \E t \in Threads :
        Ended(t) /\ uow[t].release = "full" /\ Len(pool) = POOL_SIZE

\* C5: after a normal return of the body, commit is invoked before the release
\* (no Unit of Work is past commit without it, and none is released before its
\* try block is over); when get_db_cursor is about to return normally, and when
\* it has, the commit succeeded, and no statement is left uncommitted on the
\* connection at its release; commit is never invoked when the body raised.
C5_CommitOnNormalReturn ==
    \A t \in Threads :
        /\ (uow[t].body = "ok" /\ pc[t] \in {"except", "finally", "done"})
               => CommitInvoked(t)
        /\ pc[t] # "done" => uow[t].released = 0
        /\ (AtFinally(t) /\ uow[t].exc = "none")
               => (uow[t].body = "ok" /\ uow[t].commit = "ok" /\ ~uncommitted[conn[t]])
        /\ (pc[t] = "done" /\ uow[t].result = "ok")
               => (uow[t].body = "ok" /\ uow[t].commit = "ok" /\ uow[t].released = 1)
        /\ uow[t].body \in {"exc", "base"} => ~CommitInvoked(t)

\* The body returned, commit succeeded and get_db_cursor returned normally
\* after the release.
C5_Witness ==
    \E t \in Threads :
        /\ Ended(t) /\ uow[t].body = "ok" /\ uow[t].commit = "ok"
        /\ uow[t].result = "ok" /\ uow[t].released = 1

\* C6 as claimed: when the body raises any exception, rollback is attempted
\* and the caller receives that same exception, also when rollback fails.
C6_RollbackOnAnyException ==
    \A t \in Threads :
        (AtFinally(t) /\ uow[t].body \in {"exc", "base"})
            => (RollbackInvoked(t) /\ uow[t].exc = BodyExc(uow[t].body))

\* C7: when the body returned normally and commit failed, the commit failure
\* is the exception in flight when the try block is over, get_db_cursor raises
\* it, and the connection has been released.
C7_CommitFailurePropagates ==
    \A t \in Threads :
        /\ (AtFinally(t) /\ uow[t].commit = "fail") => uow[t].exc = "commit"
        /\ (pc[t] = "done" /\ uow[t].commit = "fail")
               => /\ uow[t].result = "commit"
                  /\ uow[t].released = 1
                  /\ uow[t].release # "none"

\* get_db_cursor has ended: its body returned normally and its commit failed.
C7_Witness ==
    \E t \in Threads :
        pc[t] = "done" /\ uow[t].body = "ok" /\ uow[t].commit = "fail"

\* C8: _return_connection is invoked exactly once on the connection of every
\* Unit of Work that acquired one, at its end and not before, whatever failed
\* on the way; without a connection it is not counted.
C8_ReleaseExactlyOnce ==
    \A t \in Threads :
        /\ pc[t] # "done" => uow[t].released = 0
        /\ Ended(t) => (uow[t].released = 1 /\ uow[t].release # "none")
        /\ (pc[t] = "done" /\ uow[t].result = "connect") => uow[t].released = 0

\* get_db_cursor has ended after commit failed, its connection released once
\* and closed for failing the probe.
C8_Witness ==
    \E t \in Threads :
        /\ Ended(t) /\ uow[t].commit = "fail"
        /\ uow[t].released = 1 /\ uow[t].release = "dead"

\* C9 (P4, Scenario D, stale recovery): the connection that failed validation
\* at checkout is closed, is out of the idle set and is never the caller's
\* connection; the factory is called for a replacement, and when it succeeds
\* the caller holds the new connection and sees no connect failure.
C9_StaleRecovery ==
    \A t \in Threads :
        uow[t].stale # None =>
            /\ connState[uow[t].stale] = "closed"
            /\ ~InPool(uow[t].stale)
            /\ conn[t] # uow[t].stale
            /\ uow[t].origin = "replacement"
            /\ pc[t] # "create" => uow[t].factory # "none"
            /\ uow[t].factory = "ok" =>
                   (conn[t] # None /\ conn[t] > uow[t].stale /\ uow[t].exc # "connect")
            /\ uow[t].exc = "connect" => uow[t].factory = "fail"

\* A caller whose popped connection failed validation runs its body on the
\* replacement.
C9_Witness ==
    \E t \in Threads :
        /\ uow[t].stale # None /\ pc[t] = "body"
        /\ conn[t] # None /\ connState[conn[t]] = "open"

\* Threads whose connection came from the idle set / from the factory.
Pooled == {t \in Threads : uow[t].origin = "pooled"}
Fallback == {t \in Threads : uow[t].origin = "fallback"}

\* Connections _init_pool created, while every Unit of Work is still running:
\* all but those the acquires created.
InitCreated == nextId - Cardinality({t \in Threads : uow[t].factory = "ok"})

Acquiring(t) == pc[t] \in {"init", "populate", "get", "create"}

\* _get_pooled_connection has returned a connection to get_db_cursor.
AcquireReturned(t) == pc[t] = "cursor" /\ conn[t] # None

\* _get_pooled_connection has raised the connect failure of the factory.
AcquireRaised(t) ==
    pc[t] = "except" /\ conn[t] = None /\ uow[t].exc = "connect"

\* C11: under fairness every call of _get_pooled_connection, whether it runs
\* the lazy initialization, waits for it or comes after it, and whatever the
\* other callers hold, eventually returns a connection or raises a connect
\* failure.
C11_AcquireTerminates ==
    \A t \in Threads : Acquiring(t) ~> (AcquireReturned(t) \/ AcquireRaised(t))

\* A caller has come back from acquire with a connection made on timeout, the
\* idle set being empty while another caller holds the pooled connection.
C11_Witness ==
    \E t1, t2 \in Threads :
        /\ AcquireReturned(t1) /\ uow[t1].origin = "fallback"
        /\ t2 # t1 /\ Active(t2) /\ uow[t2].origin = "pooled" /\ pool = <<>>

\* The thread has not yet come out of _init_pool.
BeforeGet(t) == pc[t] \in {"idle", "init", "populate"}

\* C12: the lazy population happens once.  The thread in the population loop
\* holds _pool_lock and every other caller is still in front of _init_pool, so
\* no second caller populates and none pops before the loop has finished;
\* until then the factory has been called once per iteration, at most
\* POOL_SIZE times, and every connection made is in the idle set; a caller
\* that has come out of _init_pool finds all POOL_SIZE iterations done.
C12_PopulateOnce ==
    [](/\ initI <= POOL_SIZE
       /\ \A t \in Threads :
             pc[t] = "populate" =>
                 /\ pool_lock = t /\ ~poolNone
                 /\ \A u \in Threads \ {t} : pc[u] \in {"idle", "init"}
       /\ (\A t \in Threads : BeforeGet(t)) =>
             (nextId <= initI /\ Len(pool) = nextId)
       /\ \A t \in Threads :
             ~BeforeGet(t) => (~poolNone /\ initI = POOL_SIZE /\ pool_lock # t))

\* Two first callers at once: one has run the whole population loop and still
\* holds the lock, the other waits for it in _init_pool.
C12_Witness ==
    \E t1, t2 \in Threads :
        /\ t1 # t2 /\ pc[t1] = "populate" /\ initI = POOL_SIZE /\ nextId = POOL_SIZE
        /\ pc[t2] = "init"

\* This step is the `finally` block of t, run with a connection.
ReleaseStep(t) == pc[t] = "finally" /\ pc'[t] = "done" /\ conn[t] # None

\* This step is the `finally` block of t, run with conn = None.
ReleaseOfNone(t) == pc[t] = "finally" /\ pc'[t] = "done" /\ conn[t] = None

\* C13: _return_connection never raises.  With None it changes nothing: the
\* idle set, the connections and the exception in flight are as they were.
\* With a connection, whether the probe failed, the queue was full or the
\* connection was closed, no exception of its own leaves it.
C13_ReleaseNeverRaises ==
    [][\A t \in Threads :
          /\ ReleaseOfNone(t) =>
                /\ UNCHANGED <<shared, connState, uncommitted, pending, nextId>>
                /\ uow'[t].released = 0
                /\ uow'[t].result = Outcome(uow[t].exc)
          /\ ReleaseStep(t) =>
                /\ uow'[t].release \in {"put", "full", "dead"}
                /\ uow'[t].result # "release"]_vars

\* The probe failed at release, the connection was closed, and get_db_cursor
\* returned normally all the same.
C13_Witness ==
    \E t \in Threads :
        pc[t] = "done" /\ uow[t].release = "dead" /\ uow[t].result = "ok"

\* C14: release always re-validates.  Every release runs the probe; a
\* connection that fails it is closed and the idle set stays as it is; a
\* release changes the idle set only by appending a connection that passed
\* the probe; and the idle set grows in no other step but the population loop
\* of _init_pool, which puts connections the factory has just made.
C14_ReleaseRevalidates ==
    [][/\ \A t \in Threads :
            ReleaseStep(t) =>
                /\ uow'[t].probe \in {"alive", "dead"}
                /\ uow'[t].probe = "dead" =>
                       (connState'[conn[t]] = "closed" /\ pool' = pool)
                /\ pool' # pool =>
                       (uow'[t].probe = "alive" /\ pool' = Append(pool, conn[t]))
       /\ Len(pool') > Len(pool) =>
            \E t \in Threads :
                \/ ReleaseStep(t) /\ uow'[t].probe = "alive"
                \/ pc[t] = "populate" /\ pool' = Append(pool, nextId')]_vars

\* The body's statement failed on a connection that was then found dead at
\* release: it is closed and the idle set is empty.
C14_Witness ==
    \E t \in Threads :
        /\ pc[t] = "done" /\ uow[t].result = "stmt" /\ uow[t].probe = "dead"
        /\ pool = <<>>
        /\ \E c \in ConnIds : connState[c] = "closed"

\* C15 (Scenario E): the drain block runs before _return_connection, so no
\* connection in the idle set has a result set pending, and a Unit of Work
\* that has borrowed one finds none on it.
C15_DrainedBeforeRelease ==
    [](/\ \A c \in ConnIds : InPool(c) => ~pending[c]
       /\ \A t \in Threads :
             (pc[t] = "cursor" /\ uow[t].origin = "pooled") => ~pending[conn[t]])

\* A Unit of Work whose body left result sets pending has put its connection
\* back, and the next one has borrowed that connection, the only one there
\* is, with nothing pending.
C15_Witness ==
    \E t1, t2 \in Threads :
        /\ pc[t1] = "done" /\ uow[t1].body = "ok" /\ uow[t1].release = "put"
        /\ pc[t2] = "cursor" /\ uow[t2].origin = "pooled" /\ ~pending[conn[t2]]
        /\ nextId = 1

\* C16 as claimed: get_db_cursor returns normally or raises a connect failure,
\* the body's statement failure or a commit failure, and nothing else.
C16_OnlyThreeErrors ==
    \A t \in Threads :
        pc[t] = "done" => uow[t].result \in {"ok", "connect", "stmt", "commit"}

\* C16 amended: what get_db_cursor raises is the exception that was in flight
\* when the `finally` block began, whatever the drain block and
\* _return_connection ran into: a connect failure, a failure to open the
\* cursor, the body's exception (its statement failure, or the BaseException
\* that interrupted it) or a commit failure.  A Unit of Work whose body and
\* commit succeeded returns normally, and one whose body raised raises the
\* body's exception.
C16_CleanupKeepsOutcome ==
    /\ [](\A t \in Threads :
            pc[t] = "done" =>
                /\ uow[t].result \in {"ok", "connect", "cursor", "stmt", "base", "commit"}
                /\ (uow[t].body = "ok" /\ uow[t].commit = "ok") => uow[t].result = "ok"
                /\ uow[t].body \in {"exc", "base"} => uow[t].result = BodyExc(uow[t].body)
                /\ uow[t].commit = "fail" => uow[t].result = "commit")
    /\ [][\A t \in Threads :
            (pc[t] = "finally" /\ pc'[t] = "done")
                => uow'[t].result = Outcome(uow[t].exc)]_vars

\* The body's statement failed and the release found the idle set full: the
\* connection was closed and the caller got the statement failure.
C16_Witness ==
    \E t \in Threads :
        pc[t] = "done" /\ uow[t].result = "stmt" /\ uow[t].release = "full"

\* C17: a connect failure is not retried and propagates.  The factory has not
\* been called yet in an acquire that is about to call it; when it has failed,
\* the caller is in the handler or in `finally` with conn = None and the
\* connect failure in flight, and the stale connection the factory was to
\* replace is closed.  The failing call, and the rest of that get_db_cursor,
\* leave the idle set and the connections as they are: no rollback, no
\* release, and the caller gets the connect failure.
C17_ConnectFailurePropagates ==
    /\ [](\A t \in Threads :
            /\ pc[t] = "create" => uow[t].factory = "none"
            /\ uow[t].factory = "fail" =>
                  /\ pc[t] \in {"except", "finally"}
                  /\ conn[t] = None
                  /\ uow[t].exc = "connect"
                  /\ uow[t].stale # None => connState[uow[t].stale] = "closed"
            /\ (pc[t] = "done" /\ uow[t].result = "connect") => uow[t].released = 0)
    /\ [][\A t \in Threads :
            /\ (pc[t] = "create" /\ uow'[t].factory = "fail") =>
                  (pc'[t] = "except" /\ UNCHANGED <<pool, connState, nextId>>)
            /\ (uow[t].factory = "fail" /\ pc'[t] # pc[t]) =>
                  /\ UNCHANGED <<pool, connState, nextId, uncommitted>>
                  /\ pc'[t] = "finally" => uow'[t].rollback = "none"
                  /\ pc'[t] = "done" => uow'[t].result = "connect"]_vars

\* The factory failed on the exhaustion path while the other caller holds the
\* pooled connection, and get_db_cursor has raised the connect failure.
C17_Witness ==
    \E t1, t2 \in Threads :
        /\ pc[t1] = "done" /\ uow[t1].result = "connect" /\ uow[t1].released = 0
        /\ t2 # t1 /\ Active(t2) /\ uow[t2].origin = "pooled"
        /\ pool = <<>>

\* C18 as claimed: the phases come in strict order.  The body runs on an
\* acquired connection with an open cursor, commit comes after a body, the
\* release comes after commit or rollback has been attempted, and when
\* get_db_cursor is about to raise, rollback has been attempted.
C18_PhasesInOrder ==
    \A t \in Threads :
        /\ pc[t] \in {"body", "commit"} => (conn[t] # None /\ cursor[t] = "open")
        /\ CommitInvoked(t) => uow[t].body = "ok"
        /\ AtFinally(t) => (CommitInvoked(t) \/ RollbackInvoked(t))
        /\ (AtFinally(t) /\ uow[t].exc # "none") => RollbackInvoked(t)

\* This step is a step of thread t.
Stepped(t) == pc'[t] # pc[t] \/ uow'[t] # uow[t]

C20_CloseOnlyDeadOrFull ==
    [][/\ \A c \in ConnIds :
            (connState[c] = "open" /\ connState'[c] = "closed") =>
                \E t \in Threads :
                    \/ /\ pc[t] = "get" /\ pool # <<>> /\ c = Head(pool)
                       /\ uow'[t].stale = c
                    \/ /\ ReleaseStep(t) /\ conn[t] = c
                       /\ \/ uow'[t].probe = "dead"
                          \/ uow'[t].probe = "alive" /\ Len(pool) = POOL_SIZE
       /\ \A t \in Threads :
            (ReleaseStep(t) /\ uow'[t].probe = "alive" /\ Len(pool) < POOL_SIZE) =>
                /\ pool' = Append(pool, conn[t])
                /\ connState'[conn[t]] = "open"]_vars

\* A connection made on the exhaustion path is in the idle set (the
\* population loop makes at most POOL_SIZE connections, the first ones), and
\* no connection has been closed.
C20_Witness ==
    /\ \E c \in ConnIds : c > POOL_SIZE /\ InPool(c) /\ connState[c] = "open"
    /\ \A c \in ConnIds : connState[c] # "closed"

\* The callers other than t are still in front of the queue.
OthersBeforeGet(t) == \A u \in Threads \ {t} : BeforeGet(u)

\* C21: a failure of the factory in the population loop is tolerated.  The
\* iteration counts like any other and the caller stays in the loop with no
\* exception in flight; the pool is made once and the loop is never entered
\* again; the caller that leaves _init_pool goes to the queue.  There it pops
\* the connection at the head of the idle set or, the idle set being empty,
\* goes to the factory, and when the factory succeeds it holds the new
\* connection with no exception in flight.
C21_InitFailureTolerated ==
    [][/\ poolNone' => poolNone
       /\ initI' >= initI
       /\ \A t \in Threads :
            /\ (pc[t] = "populate" /\ initI' # initI) =>
                  /\ initI' = initI + 1
                  /\ pc'[t] = "populate" /\ uow'[t] = uow[t] /\ pool_lock' = t
                  /\ nextId' = nextId => pool' = pool
            /\ (pc[t] # "populate" /\ pc'[t] = "populate") => (poolNone /\ initI' = 0)
            /\ (pc[t] = "populate" /\ pc'[t] # "populate") =>
                  (pc'[t] = "get" /\ uow'[t].exc = "none")
            /\ (Stepped(t) /\ pc[t] = "get") =>
                  IF pool = <<>>
                    THEN pc'[t] = "create" /\ uow'[t].origin = "fallback"
                    ELSE \/ pc'[t] = "cursor" /\ conn'[t] = Head(pool)
                         \/ pc'[t] = "create" /\ uow'[t].stale = Head(pool)
            /\ (pc[t] = "create" /\ uow'[t].factory = "ok") =>
                  /\ pc'[t] = "cursor" /\ conn'[t] = nextId'
                  /\ connState'[conn'[t]] = "open" /\ uow'[t].exc = "none"]_vars

\* Every iteration of the population loop failed, and the first caller to
\* leave _init_pool holds a connection the factory made on the fallback path:
\* the only connection there is.
C21_Witness ==
    \E t \in Threads :
        /\ pc[t] = "cursor" /\ uow[t].origin = "fallback" /\ uow[t].factory = "ok"
        /\ initI = POOL_SIZE /\ nextId = 1 /\ conn[t] = 1
        /\ OthersBeforeGet(t)

\* The caller waits in _pool.get on an empty idle set.
Waiting(t) == pc[t] = "get" /\ pool = <<>>

\* C22: _pool_lock covers the lazy initialization only.  Its holder is in the
\* population loop; a caller that is at the queue, waiting or not, or further
\* on, does not hold it, so a caller in front of _init_pool can enter while
\* others wait, and a caller in `finally` can release.  No step outside
\* _init_pool changes the lock: release never takes it.
C22_LockCoversInitOnly ==
    /\ [](\A t \in Threads :
            /\ pool_lock = t => pc[t] = "populate"
            /\ pc[t] # "populate" => pool_lock # t
            /\ (pc[t] = "init" /\ \E u \in Threads : Waiting(u)) => ENABLED InitLock(t)
            /\ pc[t] = "finally" => ENABLED Finally(t))
    /\ [][\A t \in Threads :
            (Stepped(t) /\ pc[t] \notin {"init", "populate"}) =>
                pool_lock' = pool_lock]_vars

\* One caller waits on the empty idle set while another, which holds the
\* pooled connection, is about to release it and a third party could enter
\* _init_pool: the lock is free.
C22_Witness ==
    \E t1, t2 \in Threads :
        /\ t1 # t2 /\ Waiting(t1)
        /\ pc[t2] = "finally" /\ conn[t2] # None /\ uow[t2].origin = "pooled"
        /\ pool_lock = None

\* C24 as claimed: a connection in the idle set has no statements awaiting
\* commit, and neither has the connection a Unit of Work has just borrowed
\* from the idle set: every transaction was committed or rolled back before
\* its connection was put back.
C24_NoUncommittedCarriesOver ==
    /\ \A c \in ConnIds : InPool(c) => ~uncommitted[c]
    /\ \A t \in Threads :
          (pc[t] = "cursor" /\ uow[t].origin = "pooled") => ~uncommitted[conn[t]]

PutWithOpenCursor(t) ==
    \E drain \in DrainOutcomes(cursor[t]), alive \in BOOLEAN :
        /\ FinallyWith(t, drain, alive)
        /\ CursorAfterDrain(drain) = "open"
        /\ conn[t] # None
        /\ pool' = Append(pool, conn[t])

\* C26 as claimed: the cursor of a Unit of Work is closed before its
\* connection is released, whatever the drain block runs into: no `finally`
\* block puts a connection into the idle set with the cursor still open.
C26_CursorClosedBeforeRelease ==
    [][\A t \in Threads : ~PutWithOpenCursor(t)]_vars

\* The rows of the order that are committed.
OrderCommitted == db \cap OrderRows

\* C23 as claimed: create_order_from_cart is all-or-nothing.  When its Unit of
\* Work has committed, every row it was to write is committed; when one of its
\* statements has failed, none of its rows is committed, then or later, and
\* the call raises the failure.
C23_OrderAllOrNothing ==
    LET u == uow[OrderCaller] IN
    /\ u.commit = "ok" => OrderCommitted = OrderRowsOf(calls[OrderCaller])
    /\ u.body = "exc" =>
          /\ OrderCommitted = {}
          /\ pc[OrderCaller] = "done" => u.result = "stmt"

\* C27 as claimed: nested Units of Work cannot deadlock.  Under fairness the
\* acquire of every read-back scope comes to an end, also while the writing
\* scopes hold the connections of the idle set, and every thread that has
\* called the read-back finishes both of its scopes.
C27_NestedNoDeadlock ==
    /\ \A t \in InnerScopes :
          Acquiring(t) ~> (AcquireReturned(t) \/ AcquireRaised(t))
    /\ \A t \in OuterScopes :
          (pc[t] = "call") ~> (pc[t] = "done" /\ pc[InnerOf(t)] = "done")

\* C28 as claimed: the read-back starts only after the writing Unit of Work
\* has committed.
C28_ReadBackAfterCommit ==
    \A t \in InnerScopes : pc[t] # "idle" => uow[OuterOf(t)].commit = "ok"

\* C29 as claimed: a password-reset token is single-use.  Of the calls of
\* reset_password that present the same valid token, at most one updates the
\* user's password, and no call made after the token has been marked used
\* updates it.
C29_ResetTokenSingleUse ==
    /\ \A t1, t2 \in Threads :
          calls[t1].updated /\ calls[t2].updated => t1 = t2
    /\ \A t \in Threads : calls[t].late => ~calls[t].updated

\* C30 as claimed: subscription numbers are unique.  Whatever the
\* interleaving of the calls of create_subscription, no two rows of
\* Subscriptions are stored with the same SubscriptionNumber.
C30_SubscriptionNumbersUnique ==
    \A r1, r2 \in Subscriptions(db) : r1[3] = r2[3] => r1 = r2

====
